---- MODULE Spec2Model ----
(***************************************************************************)
(* The "Analyze" handler of src/app.py: the click, the call to the        *)
(* synthesis service, the evidence normalization of the parsed result,    *)
(* the recomputation of theme evidence counts, and the display / export.  *)
(* A Python dict is a function whose DOMAIN is its set of keys, a list is *)
(* a sequence, None is the value None below.                              *)
(***************************************************************************)
EXTENDS Integers, Sequences, FiniteSets, TLC

VARIABLES pc, raw, result, message, exception, rendered, exported

vars == <<pc, raw, result, message, exception, rendered, exported>>

-----------------------------------------------------------------------------
(* Bounds of the explored inputs *)

MaxEvidence == 3
MaxPainPoints == 2
MaxRefs == 3

-----------------------------------------------------------------------------
(* Values *)

None == "None"

Interviews == {"Interview 1", "Interview 2", "Interview 3"}
Labels == {"A", "B"}
RefLabels == Labels \cup {"Z"}

Range(s) == {s[i] : i \in DOMAIN s}
SeqsUpTo(S, n) == UNION {[1..k -> S] : k \in 0..n}

EmptyDict == <<>>
Opt(k, V) == {EmptyDict} \cup {k :> v : v \in V}

-----------------------------------------------------------------------------
(* Python primitives used by the handler *)

\* d.get(k, default)
DictGet(d, k, default) == IF k \in DOMAIN d THEN d[k] ELSE default

\* d[k] = v
DictSet(d, k, v) == [x \in DOMAIN d \cup {k} |-> IF x = k THEN v ELSE d[x]]

\* the lookup a strict subscript d[k] would make: KeyError on an absent key
SubscriptRaises(d, k) == k \notin DOMAIN d

\* d.get(k, default) never raises on an absent key
GetRaises(d, k) == FALSE

\* truth value of a dict
Truthy(d) == DOMAIN d # {}

IsMapping(v) == v.type = "dict"

\* list(dict.fromkeys(seq)): keys in order of first insertion
RECURSIVE FromKeys(_, _)
FromKeys(seq, acc) ==
    IF seq = <<>> THEN acc
    ELSE FromKeys(Tail(seq),
                  IF Head(seq) \in Range(acc) THEN acc ELSE Append(acc, Head(seq)))

\* a dedupe that keeps the last occurrence of each key instead of the first
RECURSIVE KeepLast(_)
KeepLast(seq) ==
    IF seq = <<>> THEN <<>>
    ELSE IF Head(seq) \in Range(Tail(seq)) THEN KeepLast(Tail(seq))
         ELSE <<Head(seq)>> \o KeepLast(Tail(seq))

Unique(seq) == FromKeys(seq, <<>>)

\* a classification with the medium threshold off by one
StrengthOffByOne(count) ==
    IF count <= 1 THEN "low" ELSE IF count <= 3 THEN "medium" ELSE "high"

Strength(count) ==
    IF count <= 1 THEN "low" ELSE IF count = 2 THEN "medium" ELSE "high"

-----------------------------------------------------------------------------
(* Normalization of one pain point (the body of the first loop) *)

\* keeps a model-supplied evidence_count when there is one
NormalizePainPointKeepCount(p) ==
    LET interviews == Unique(DictGet(p, "evidence_interviews", <<>>))
        count      == DictGet(p, "evidence_count", Len(interviews))
    IN DictSet(DictSet(DictSet(p, "evidence_interviews", interviews),
                       "evidence_count", count),
               "evidence_strength", Strength(count))

\* counts the raw list before it is deduplicated
NormalizePainPointRawCount(p) ==
    LET rawlist    == DictGet(p, "evidence_interviews", <<>>)
        interviews == Unique(rawlist)
        count      == Len(rawlist)
    IN DictSet(DictSet(DictSet(p, "evidence_interviews", interviews),
                       "evidence_count", count),
               "evidence_strength", Strength(count))

\* also writes the display defaults into the object
NormalizePainPointFillDefaults(p) ==
    LET interviews == Unique(DictGet(p, "evidence_interviews", <<>>))
        count      == Len(interviews)
        q == DictSet(DictSet(DictSet(p, "label", DictGet(p, "label", "")),
                             "description", DictGet(p, "description", "")),
                     "segments", DictGet(p, "segments", <<>>))
    IN DictSet(DictSet(DictSet(q, "evidence_interviews", interviews),
                       "evidence_count", count),
               "evidence_strength", Strength(count))

NormalizePainPoint(p) ==
    LET interviews == Unique(DictGet(p, "evidence_interviews", <<>>))
        count      == Len(interviews)
    IN DictSet(DictSet(DictSet(p, "evidence_interviews", interviews),
                       "evidence_count", count),
               "evidence_strength", Strength(count))

\* the first loop: every element of result.get("pain_points", []) is updated
\* in place; an absent key stays absent
NormalizePainPoints(d) ==
    IF "pain_points" \in DOMAIN d
    THEN [d EXCEPT !["pain_points"] =
              [i \in DOMAIN d["pain_points"] |-> NormalizePainPoint(d["pain_points"][i])]]
    ELSE d

-----------------------------------------------------------------------------
(* Theme evidence counts (the second loop) *)

\* first-write-wins: a label already in the lookup is not replaced
RECURSIVE PpByLabelFirst(_)
PpByLabelFirst(pps) ==
    IF pps = <<>> THEN EmptyDict
    ELSE LET front == PpByLabelFirst(SubSeq(pps, 1, Len(pps) - 1))
             p     == pps[Len(pps)]
             k     == DictGet(p, "label", None)
         IN IF k \in DOMAIN front THEN front ELSE DictSet(front, k, p)

\* {p.get("label"): p for p in pain_points}: a later entry replaces an earlier
RECURSIVE PpByLabel(_)
PpByLabel(pps) ==
    IF pps = <<>> THEN EmptyDict
    ELSE LET p == pps[Len(pps)]
         IN DictSet(PpByLabel(SubSeq(pps, 1, Len(pps) - 1)), DictGet(p, "label", None), p)

\* the interviews one label adds to unique_interviews
Resolved(index, label) ==
    IF label \in DOMAIN index /\ Truthy(index[label])
    THEN Range(DictGet(index[label], "evidence_interviews", <<>>))
    ELSE {}

\* adds up the list lengths instead of taking the union
RECURSIVE SumLens(_, _)
SumLens(index, labels) ==
    IF labels = <<>> THEN 0
    ELSE Cardinality(Resolved(index, Head(labels))) + SumLens(index, Tail(labels))

ThemeCountSum(t, index) == SumLens(index, DictGet(t, "pain_points", <<>>))

ThemeCount(t, index) ==
    LET labels == DictGet(t, "pain_points", <<>>)
    IN Cardinality(UNION {Resolved(index, labels[i]) : i \in DOMAIN labels})

RecomputeThemeCounts(d) ==
    LET index == PpByLabel(DictGet(d, "pain_points", <<>>))
    IN IF "themes" \in DOMAIN d
       THEN [d EXCEPT !["themes"] =
                [i \in DOMAIN d["themes"] |->
                    DictSet(d["themes"][i], "evidence_count",
                            ThemeCount(d["themes"][i], index))]]
       ELSE d

\* the whole normalization pass on a mapping
Normalize(d) == RecomputeThemeCounts(NormalizePainPoints(d))

-----------------------------------------------------------------------------
(* What json.loads can return for the text of the service's answer *)

Merge(f, g) == f @@ g

\* pain points with every optional field present or absent, every evidence
\* list up to MaxEvidence citations, and model-supplied derived fields
RichPainPoints ==
    {Merge(l, Merge(de, Merge(sg, Merge(ev, Merge(ec, es))))) :
        l  \in Opt("label", {"A"}),
        de \in Opt("description", {"stock is always wrong"}),
        sg \in Opt("segments", {<<"shop owner">>}),
        ev \in Opt("evidence_interviews", SeqsUpTo(Interviews, MaxEvidence)),
        ec \in Opt("evidence_count", {0, 7}),
        es \in Opt("evidence_strength", {"low", "high"})}

CitationSamples ==
    {<<"Interview 1">>, <<"Interview 1", "Interview 2">>, <<"Interview 2", "Interview 3">>}

\* pain points as the themes see them: a label and a citation list
LeanPainPoints ==
    {Merge(l, ev) : l \in Opt("label", Labels),
                    ev \in {"evidence_interviews" :> c : c \in CitationSamples}}

Themes ==
    {Merge([theme |-> "Inventory", evidence_count |-> 9], pl) :
        pl \in Opt("pain_points", SeqsUpTo(RefLabels, MaxRefs))}

ThemeLists == {<<>>} \cup {<<t>> : t \in Themes}

SampleQuote ==
    [quote |-> "It's always wrong.", segment |-> "shop owner",
     interview |-> "Interview 1", supports |-> "A"]

Quotes == {[k \in K |-> SampleQuote[k]] : K \in SUBSET DOMAIN SampleQuote}

SampleResult ==
    [pain_points    |-> <<[label |-> "A", evidence_interviews |-> <<"Interview 1", "Interview 1">>]>>,
     themes         |-> <<[theme |-> "Inventory", pain_points |-> <<"A">>]>>,
     quotes         |-> <<SampleQuote>>,
     pmf_hypotheses |-> <<"For shop owners ...">>,
     contradictions |-> <<"owners and managers disagree">>,
     open_questions |-> <<"how often is stock counted?">>]

\* one pain point in full detail
PainResults == {"pain_points" :> <<p>> : p \in RichPainPoints}

\* several pain points grouped by themes
ThemeResults ==
    {Merge(pp, th) :
        pp \in Opt("pain_points", SeqsUpTo(LeanPainPoints, MaxPainPoints)),
        th \in Opt("themes", ThemeLists)}

\* every subset of the top-level lists, and quotes with fields missing
ShapeResults ==
    {[k \in K |-> SampleResult[k]] : K \in SUBSET DOMAIN SampleResult}
    \cup {"quotes" :> <<q>> : q \in Quotes}

Mappings == PainResults \cup ThemeResults \cup ShapeResults

NonMappings ==
    {[type |-> "str", val |-> "sorry, no insights"],
     [type |-> "list", val |-> <<>>]}

ParsedValues == {[type |-> "dict", val |-> d] : d \in Mappings} \cup NonMappings

\* the ways requests.post / the status check fail
TransportFailures == {"Timeout", "ConnectionError", "RuntimeError"}
\* the ways r.json(), the indexing of the body and json.loads fail
ParseFailures == {"JSONDecodeError", "KeyError"}

-----------------------------------------------------------------------------
(* State of one run of the script *)

NoResult == [type |-> "unbound", val |-> EmptyDict]
NoMessage == [level |-> "none", text |-> ""]
NoRender == [shown |-> FALSE]
NoExport == [offered |-> FALSE]

Init ==
    /\ pc = "idle"
    /\ raw = NoResult
    /\ result = NoResult
    /\ message = NoMessage
    /\ exception = None
    /\ rendered = NoRender
    /\ exported = NoExport

\* st.stop() after a message
Stop(level, text) ==
    /\ pc' = "stopped"
    /\ message' = [level |-> level, text |-> text]

\* "if analyze:" up to the spinner: the two input checks
ClickAnalyze ==
    /\ pc = "idle"
    /\ \E notes \in {"", "Interview 1 (shop owner): ..."}, api_key \in {"", "sk-key"} :
          IF notes = "" THEN Stop("warning", "Please paste interview notes first.")
          ELSE IF api_key = "" THEN Stop("error", "Missing OPENAI_API_KEY.")
          ELSE pc' = "calling" /\ message' = message
    /\ UNCHANGED <<raw, result, exception, rendered, exported>>

\* a failed call that falls through to the normalization with an empty result
CallSynthesisFallThrough ==
    /\ pc = "calling"
    /\ \/ \E e \in TransportFailures \cup ParseFailures :
             /\ exception' = e
             /\ message' = [level |-> "error", text |-> "Analysis failed"]
             /\ pc' = "normalize"
             /\ raw' = [type |-> "dict", val |-> EmptyDict]
             /\ result' = [type |-> "dict", val |-> EmptyDict]
       \/ \E v \in ParsedValues :
             /\ raw' = v
             /\ result' = v
             /\ pc' = "normalize"
             /\ UNCHANGED <<message, exception>>
    /\ UNCHANGED <<rendered, exported>>

\* try: result = call_openai_synthesis(...) except Exception: st.error; st.stop
CallSynthesis ==
    /\ pc = "calling"
    /\ \/ \E e \in TransportFailures \cup ParseFailures :
             /\ exception' = e
             /\ Stop("error", "Analysis failed")
             /\ UNCHANGED <<raw, result>>
       \/ \E v \in ParsedValues :
             /\ raw' = v
             /\ result' = v
             /\ pc' = "normalize"
             /\ UNCHANGED <<message, exception>>
    /\ UNCHANGED <<rendered, exported>>

\* an exception nothing catches ends the run
Uncaught(e) ==
    /\ pc' = "crashed"
    /\ exception' = e

\* the lookups of the first loop
EvidenceLoopRaises(d) ==
    \/ GetRaises(d, "pain_points")
    \/ \E i \in DOMAIN DictGet(d, "pain_points", <<>>) :
          GetRaises(d["pain_points"][i], "evidence_interviews")

\* "Normalize evidence fields"
NormalizeEvidence ==
    /\ pc = "normalize"
    /\ IF ~IsMapping(result) THEN Uncaught("AttributeError") /\ result' = result
       ELSE IF EvidenceLoopRaises(result.val) THEN Uncaught("KeyError") /\ result' = result
       ELSE /\ result' = [result EXCEPT !.val = NormalizePainPoints(@)]
            /\ pc' = "themes"
            /\ exception' = exception
    /\ UNCHANGED <<raw, message, rendered, exported>>

\* the lookups of the second loop
ThemeLoopRaises(d) ==
    \/ GetRaises(d, "pain_points")
    \/ GetRaises(d, "themes")
    \/ \E i \in DOMAIN DictGet(d, "pain_points", <<>>) :
          GetRaises(d["pain_points"][i], "label")
    \/ \E i \in DOMAIN DictGet(d, "themes", <<>>) :
          GetRaises(d["themes"][i], "pain_points")

\* "Recompute theme evidence_count based on unique interviews"
RecomputeThemes ==
    /\ pc = "themes"
    /\ IF ThemeLoopRaises(result.val) THEN Uncaught("KeyError") /\ result' = result
       ELSE /\ result' = [result EXCEPT !.val = RecomputeThemeCounts(@)]
            /\ pc' = "display"
            /\ exception' = exception
    /\ UNCHANGED <<raw, message, rendered, exported>>

\* one card of the "Pain Points" tab
PainPointCard(p) ==
    [label       |-> DictGet(p, "label", ""),
     description |-> DictGet(p, "description", ""),
     segments    |-> DictGet(p, "segments", <<>>),
     evidence    |-> DictGet(p, "evidence_interviews", <<>>),
     count       |-> DictGet(p, "evidence_count", None),
     strength    |-> DictGet(p, "evidence_strength", None)]

\* one card of the "Themes" tab
ThemeCard(t) ==
    [theme          |-> DictGet(t, "theme", ""),
     evidence_count |-> DictGet(t, "evidence_count", None),
     pain_points    |-> DictGet(t, "pain_points", <<>>)]

\* one card of the "Quotes" tab
QuoteCard(q) ==
    [quote     |-> DictGet(q, "quote", ""),
     segment   |-> DictGet(q, "segment", None),
     interview |-> DictGet(q, "interview", None),
     supports  |-> DictGet(q, "supports", None)]

\* the lookups of the display preparation and of the tabs
DisplayRaises(d) ==
    \E k \in {"pain_points", "themes", "quotes", "pmf_hypotheses",
              "contradictions", "open_questions"} : GetRaises(d, k)

\* "Prep data for display", the metrics, the download button and the tabs
Display ==
    /\ pc = "display"
    /\ IF DisplayRaises(result.val)
       THEN Uncaught("KeyError") /\ UNCHANGED <<message, rendered, exported>>
       ELSE LET d == result.val
                pain_points    == DictGet(d, "pain_points", <<>>)
                themes         == DictGet(d, "themes", <<>>)
                quotes         == DictGet(d, "quotes", <<>>)
                hypotheses     == DictGet(d, "pmf_hypotheses", <<>>)
                contradictions == DictGet(d, "contradictions", <<>>)
                open_questions == DictGet(d, "open_questions", <<>>)
            IN /\ message' = [level |-> "success", text |-> "Done"]
               /\ exported' = [offered |-> TRUE, doc |-> d]
               /\ rendered' =
                     [shown          |-> TRUE,
                      metrics        |-> <<Len(pain_points), Len(themes),
                                           Len(quotes), Len(hypotheses)>>,
                      pain_points    |-> [i \in DOMAIN pain_points |-> PainPointCard(pain_points[i])],
                      themes         |-> [i \in DOMAIN themes |-> ThemeCard(themes[i])],
                      quotes         |-> [i \in DOMAIN quotes |-> QuoteCard(quotes[i])],
                      hypotheses     |-> hypotheses,
                      contradictions |-> contradictions,
                      open_questions |-> open_questions]
               /\ pc' = "done"
               /\ exception' = exception
    /\ UNCHANGED <<raw, result>>

\* the next interaction reruns the script: the locals of the last run are gone
Rerun ==
    /\ pc \in {"stopped", "crashed", "done"}
    /\ pc' = "idle"
    /\ raw' = NoResult
    /\ result' = NoResult
    /\ message' = NoMessage
    /\ exception' = None
    /\ rendered' = NoRender
    /\ exported' = NoExport

Next ==
    \/ ClickAnalyze
    \/ CallSynthesis
    \/ NormalizeEvidence
    \/ RecomputeThemes
    \/ Display
    \/ Rerun

Spec == Init /\ [][Next]_vars

-----------------------------------------------------------------------------
(* Properties *)

\* the first loop has run on a mapping
EvidenceNormalized == pc \in {"themes", "display", "done"}
\* both loops have run
FullyNormalized == pc \in {"display", "done"}

RawPainPoints == DictGet(raw.val, "pain_points", <<>>)
NormPainPoints == DictGet(result.val, "pain_points", <<>>)
RawEvidence(i) == DictGet(RawPainPoints[i], "evidence_interviews", <<>>)

HasDuplicates(s) == Cardinality(Range(s)) < Len(s)
FirstIndex(s, x) == CHOOSE k \in DOMAIN s : s[k] = x /\ \A j \in DOMAIN s : s[j] = x => k <= j

\* C1: after the first loop every pain point's evidence_count is the number of
\* distinct identifiers of its raw evidence_interviews (0 when the field is
\* absent), whatever evidence_count the raw entry carried.
C1_CountIsDistinctInterviews ==
    EvidenceNormalized =>
        /\ Len(NormPainPoints) = Len(RawPainPoints)
        /\ \A i \in DOMAIN RawPainPoints :
              NormPainPoints[i]["evidence_count"] = Cardinality(Range(RawEvidence(i)))

C1_Witness ==
    /\ pc = "done"
    /\ \E i \in DOMAIN RawPainPoints :
          /\ HasDuplicates(RawEvidence(i))
          /\ "evidence_count" \in DOMAIN RawPainPoints[i]
          /\ RawPainPoints[i]["evidence_count"] # Cardinality(Range(RawEvidence(i)))
          /\ NormPainPoints[i]["evidence_count"] = 2

\* C2: after the first loop evidence_strength is a function of the normalized
\* evidence_count alone: low for 0 and 1, medium for 2, high for 3 and more;
\* a strength in the raw entry is overwritten.
C2_StrengthFollowsCount ==
    EvidenceNormalized =>
        \A i \in DOMAIN NormPainPoints :
            LET n == Cardinality(Range(RawEvidence(i)))
                s == NormPainPoints[i]["evidence_strength"]
            IN /\ n \in {0, 1} => s = "low"
               /\ n = 2 => s = "medium"
               /\ n >= 3 => s = "high"

C2_Witness ==
    /\ pc = "done"
    /\ \E i \in DOMAIN RawPainPoints :
          /\ DictGet(RawPainPoints[i], "evidence_strength", None) = "low"
          /\ Cardinality(Range(RawEvidence(i))) = 3
          /\ NormPainPoints[i]["evidence_strength"] = "high"

\* the positions of the pain points carrying a label (None for a missing one)
Carrying(pps, label) == {i \in DOMAIN pps : DictGet(pps[i], "label", None) = label}
Last(S) == CHOOSE i \in S : \A j \in S : j <= i

\* the interviews of the pain point a label resolves to, if any
InterviewsOf(pps, label) ==
    IF Carrying(pps, label) = {} THEN {}
    ELSE Range(pps[Last(Carrying(pps, label))]["evidence_interviews"])

NormThemes == DictGet(result.val, "themes", <<>>)
ThemeLabels(t) == DictGet(t, "pain_points", <<>>)

\* C3: after both loops every theme's evidence_count is the size of the union
\* of the normalized evidence_interviews of the pain points its labels resolve
\* to; a label no pain point carries adds nothing.
C3_ThemeCountIsUnion ==
    FullyNormalized =>
        \A i \in DOMAIN NormThemes :
            NormThemes[i]["evidence_count"] =
                Cardinality(UNION {InterviewsOf(NormPainPoints, l) :
                                      l \in Range(ThemeLabels(NormThemes[i]))})

\* a theme citing two pain points that share an interview, and a label nobody carries
C3_Witness ==
    /\ pc = "done"
    /\ \E i \in DOMAIN NormThemes :
          /\ "Z" \in Range(ThemeLabels(NormThemes[i]))
          /\ \E a, b \in Range(ThemeLabels(NormThemes[i])) :
                /\ a # b
                /\ InterviewsOf(NormPainPoints, a) \cap InterviewsOf(NormPainPoints, b) # {}
          /\ NormThemes[i]["evidence_count"] = 3

\* C4: the normalization pass applied to a normalized result changes nothing.
C4_Idempotent ==
    FullyNormalized => Normalize(result.val) = result.val

C4_Witness ==
    /\ pc = "done"
    /\ result.val # raw.val
    /\ \E i \in DOMAIN RawPainPoints : HasDuplicates(RawEvidence(i))

\* C5: a parsed answer that is not a mapping ends the run in a MalformedResponse
\* error surfaced through the handler's error message, with nothing rendered.
C5_NonMappingSurfaced ==
    (pc \in {"stopped", "crashed", "done"} /\ raw.type \in {"str", "list"}) =>
        /\ exception = "MalformedResponse"
        /\ message.level = "error"
        /\ rendered = NoRender
        /\ exported = NoExport

\* C6: a mapping never makes the normalization or the display preparation
\* raise, whichever optional keys are missing.
C6_MissingFieldsNeverRaise ==
    IsMapping(raw) => pc \in {"normalize", "themes", "display", "done"} /\ exception = None

C6_Witness ==
    /\ pc = "done"
    /\ \E i \in DOMAIN RawPainPoints : DOMAIN RawPainPoints[i] = {}

\* C7 as claimed: the exported object carries label, description and segments
\* for every pain point, "" or the empty list where the raw entry had none.
C7_ExportCarriesDefaults ==
    pc = "done" =>
        \A i \in DOMAIN RawPainPoints :
            LET p == exported.doc["pain_points"][i]
            IN /\ {"label", "description", "segments"} \subseteq DOMAIN p
               /\ "label" \notin DOMAIN RawPainPoints[i] => p["label"] = ""
               /\ "description" \notin DOMAIN RawPainPoints[i] => p["description"] = ""
               /\ "segments" \notin DOMAIN RawPainPoints[i] => p["segments"] = <<>>

\* C7 amended: the first loop neither adds nor changes label, description or
\* segments: a key the raw entry lacks is still absent from the normalized and
\* from the exported pain point, and only the rendered card shows "" or the
\* empty list in its place.
C7_DefaultsOnlyAtDisplay ==
    /\ EvidenceNormalized =>
          \A i \in DOMAIN RawPainPoints :
              \A k \in {"label", "description", "segments"} :
                  /\ k \in DOMAIN NormPainPoints[i] <=> k \in DOMAIN RawPainPoints[i]
                  /\ k \in DOMAIN RawPainPoints[i] =>
                        NormPainPoints[i][k] = RawPainPoints[i][k]
    /\ pc = "done" =>
          /\ exported.doc = result.val
          /\ \A i \in DOMAIN RawPainPoints :
                LET card == rendered.pain_points[i]
                    p    == RawPainPoints[i]
                IN /\ card.label = (IF "label" \in DOMAIN p THEN p["label"] ELSE "")
                   /\ card.description =
                         (IF "description" \in DOMAIN p THEN p["description"] ELSE "")
                   /\ card.segments =
                         (IF "segments" \in DOMAIN p THEN p["segments"] ELSE <<>>)

C7_Witness ==
    /\ pc = "done"
    /\ \E i \in DOMAIN RawPainPoints :
          /\ DOMAIN RawPainPoints[i] \cap {"label", "description", "segments"} = {}
          /\ DOMAIN exported.doc["pain_points"][i] \cap {"label", "description", "segments"} = {}
          /\ rendered.pain_points[i].label = ""
          /\ rendered.pain_points[i].segments = <<>>

\* C8: once the call to the service has failed in a run, the run is stopped
\* with an error message and holds no result, no rendering and no export.
C8_FailureAborts ==
    exception \in TransportFailures =>
        /\ pc = "stopped"
        /\ message.level = "error"
        /\ result = NoResult
        /\ rendered = NoRender
        /\ exported = NoExport

C8_Witness ==
    /\ exception = "Timeout"
    /\ pc = "stopped"
    /\ message = [level |-> "error", text |-> "Analysis failed"]

\* C9: after the first loop evidence_interviews has no duplicate, holds the
\* identifiers of the raw list, and orders them by first occurrence there.
C9_DedupedInFirstSeenOrder ==
    EvidenceNormalized =>
        \A i \in DOMAIN RawPainPoints :
            LET n == NormPainPoints[i]["evidence_interviews"]
                r == RawEvidence(i)
            IN /\ ~HasDuplicates(n)
               /\ Range(n) = Range(r)
               /\ \A a, b \in DOMAIN n :
                     a < b => FirstIndex(r, n[a]) < FirstIndex(r, n[b])

\* a raw list whose first-seen order differs from its last-seen order
C9_Witness ==
    /\ pc = "done"
    /\ \E i \in DOMAIN RawPainPoints :
          /\ RawEvidence(i) = <<"Interview 2", "Interview 1", "Interview 2">>
          /\ NormPainPoints[i]["evidence_interviews"] = <<"Interview 2", "Interview 1">>

\* the labels carried by two or more pain points
SharedLabels == {l \in Labels : Cardinality(Carrying(NormPainPoints, l)) >= 2}

\* C10: a label shared by several pain points resolves to the last of them: a
\* theme citing only that label counts the last one's interviews and nothing
\* of the earlier ones, and the run does not fail.
C10_LastDuplicateWins ==
    FullyNormalized =>
        /\ exception = None
        /\ \A l \in SharedLabels :
              /\ PpByLabel(NormPainPoints)[l] = NormPainPoints[Last(Carrying(NormPainPoints, l))]
              /\ \A i \in DOMAIN NormThemes :
                    Range(ThemeLabels(NormThemes[i])) = {l} =>
                        NormThemes[i]["evidence_count"] =
                            NormPainPoints[Last(Carrying(NormPainPoints, l))]["evidence_count"]

\* two pain points labelled A, the earlier with more interviews than the later
C10_Witness ==
    /\ pc = "done"
    /\ "A" \in SharedLabels
    /\ \E i \in DOMAIN NormThemes :
          /\ Range(ThemeLabels(NormThemes[i])) = {"A"}
          /\ NormThemes[i]["evidence_count"] = 1
          /\ \E j \in Carrying(NormPainPoints, "A") : NormPainPoints[j]["evidence_count"] = 2

====
